---- MODULE Spec2Model ----
(***************************************************************************)
(* PyPSA-China 7-node model: the per-year pipeline of main.run_workflow    *)
(* (build network -> solve -> LOLE analysis -> store -> save) and the      *)
(* network assembly of network.NetworkBuilder.                             *)
(*                                                                         *)
(* Representation                                                          *)
(*   - a pandas component table (network.links, network.generators, ...)   *)
(*     is a function from the component name (the DataFrame index) to its  *)
(*     row; names are real strings built as the code builds them           *)
(*     (f"{region1}-{region2}"), so two components can collide;            *)
(*   - a quantity that may be a number, float("inf"), None or the          *)
(*     library default is a tagged tuple: Num(x), Inf, None, Default;      *)
(*   - per-unit bounds are kept as the literals the code passes            *)
(*     ("-1", "0", "1", "1.0"); the code does no arithmetic on them;       *)
(*   - a time series is a function over Snapshots.                         *)
(***************************************************************************)
EXTENDS Integers, Sequences, FiniteSets, TLC

(* ----------------------------- bounds ---------------------------------- *)
\* longest corridor list config['network']['links'] that is explored
MaxLinks == 2
\* longest list of generator records get_generators_data returns
MaxGens == 2
\* longest list of years (config['model']['years'] and --years)
MaxYears == 2

(* ------------------------- input universes ----------------------------- *)
RegionList == <<"A", "B", "C">>
Regions == {RegionList[i] : i \in 1..Len(RegionList)}
Snapshots == {"t1", "t2"}
YearChoices == {2020, 2030, 2040, 2050}
Capacities == {1000, 1500}
DemandValues == {3, 5}
ScaleValues == {1, 2}
AvailValues == {0, 1}
GenCapacities == {7}
Techs == {"wind", "solar", "hydro", "coal", "ENS"}
CorridorPairs == {p \in Regions \X Regions : p[1] # p[2]}

Num(x) == <<"num", x>>
Inf == <<"inf">>
None == <<"none">>
Default == <<"default">>

EmptyTable == [n \in {} |-> n]

SeqsUpTo(S, n) == UNION {[1..k -> S] : k \in 0..n}

VARIABLES
  \* ---- inputs, fixed for a run ----
  links,          \* config['network']['links']: the corridor list
  configYears,    \* config['model']['years']
  argsYears,      \* args.years (<<>> when --years is not given)
  saveNetworks,   \* config['results']['save_networks']
  createPlots,    \* config['results']['create_plots']
  createReport,   \* config['results']['create_report']
  dupPolicy,      \* what the installed pypsa does on network.add of a taken name
  capData,        \* DataProcessor: transmission capacity per corridor and year
  loadData,       \* DataProcessor.get_demand_data(): region -> series (columns)
  scaleFactors,   \* DataProcessor.get_demand_scale_factors(year): region -> factor
  genData,        \* DataProcessor.get_generators_data(year): records
  profiles,       \* DataProcessor.get_renewable_profile: (region, tech) -> series
  \* ---- program state ----
  pc,             \* position in main / run_workflow / create_network
  years,          \* run_workflow: the years to run
  yi,             \* run_workflow: index of the for loop over years
  network,        \* the network of the current year
  networks,       \* run_workflow: networks[year]
  lole_results,   \* run_workflow: lole_results[year]
  fsDirs,         \* directories that exist under the output root
  fsFiles,        \* files written under the output root
  log,            \* the records handed to the loggers, in order
  capQueries,     \* the (region1, region2, year) asked of get_transmission_capacity
  profileQueries, \* the (region, tech) asked of get_renewable_profile
  lole_result,    \* run_workflow: the LOLE result of the current iteration
  events,         \* history: what each loop iteration did, in order
  error,          \* the exception that ended run_workflow ("none" while running)
  exitCode        \* the process exit status ("running" until main ends)

inputs == <<links, configYears, argsYears, saveNetworks, createPlots, createReport,
            dupPolicy, capData, loadData, scaleFactors, genData, profiles>>
vars == <<links, configYears, argsYears, saveNetworks, createPlots, createReport,
          dupPolicy, capData, loadData, scaleFactors, genData, profiles,
          pc, years, yi, network, networks, lole_results, fsDirs, fsFiles, log,
          capQueries, profileQueries, lole_result, events, error, exitCode>>

(* --------------------------- configuration ----------------------------- *)
\* NetworkBuilder.__init__ and the config['optimization'] tables it reads
Config ==
  [ ens_cost |-> 10000,
    transmission_hurdle_cost |-> 2,
    min_technical_output |-> [t \in {"coal"} |-> "0.3"],
    marginal_costs |-> [t \in {"coal", "wind"} |-> IF t = "coal" THEN 30 ELSE 0] ]

\* dict.get(key, default)
DictGet(d, k, dflt) == IF k \in DOMAIN d THEN d[k] ELSE dflt

\* self.year of the NetworkBuilder of the current loop iteration
year == years[yi]

\* a logger call: level, message, the region it names ("" when none) and the year
Logged(level, msg, region, y) == [level |-> level, msg |-> msg, region |-> region, year |-> y]

(* ------------------------- pypsa.Network.add --------------------------- *)
\* network.add(class, name, **row) on a component table. A free name adds the
\* row. A taken name either raises (pypsa < 0.33 asserts the name is new) or
\* is skipped with a warning and leaves the table alone (pypsa >= 0.33,
\* overwrite=False): dupPolicy says which library is installed.
NetworkAdd(table, name, row) ==
  IF name \in DOMAIN table
    THEN [tbl |-> table, raised |-> (dupPolicy = "raise")]
    ELSE [tbl |-> (name :> row) @@ table, raised |-> FALSE]

\* pypsa.Network() followed by network.set_snapshots(timestamps)
NewNetwork ==
  [ snapshots |-> Snapshots,
    buses |-> EmptyTable,
    links |-> EmptyTable,
    loads |-> EmptyTable,
    generators |-> EmptyTable,
    generators_t_p_max_pu |-> EmptyTable,
    status |-> "unsolved" ]

(* ------------------------ DataProcessor (collaborator) ------------------ *)
\* get_transmission_capacity(region1, region2, year): the capacity recorded
\* for the corridor (an unordered pair of regions) in that year
CapKey(r1, r2, y) == <<{r1, r2}, y>>
get_transmission_capacity(r1, r2, y) == capData[CapKey(r1, r2, y)]

(* ----------------------- _add_transmission_links ----------------------- *)
\* the if / elif / else over self.year: capacity, extendable, p_nom_max and
\* the years asked of the data processor
\* variant: the base year built extendable
CapacityPolicyBaseExtendable(y, r1, r2) ==
  IF y = 2020 THEN
    [capacity |-> get_transmission_capacity(r1, r2, y), extendable |-> TRUE,
     p_nom_max |-> None, queried |-> {y}]
  ELSE IF y = 2030 THEN
    [capacity |-> get_transmission_capacity(r1, r2, 2020), extendable |-> TRUE,
     p_nom_max |-> Num(get_transmission_capacity(r1, r2, y)), queried |-> {2020, y}]
  ELSE
    [capacity |-> get_transmission_capacity(r1, r2, 2020), extendable |-> TRUE,
     p_nom_max |-> Inf, queried |-> {2020}]

\* variant: the 2030 links sized by the 2030 capacity instead of the 2020 one
CapacityPolicyNearSizedByTarget(y, r1, r2) ==
  IF y = 2020 THEN
    [capacity |-> get_transmission_capacity(r1, r2, y), extendable |-> FALSE,
     p_nom_max |-> None, queried |-> {y}]
  ELSE IF y = 2030 THEN
    [capacity |-> get_transmission_capacity(r1, r2, y), extendable |-> TRUE,
     p_nom_max |-> Num(get_transmission_capacity(r1, r2, y)), queried |-> {y}]
  ELSE
    [capacity |-> get_transmission_capacity(r1, r2, 2020), extendable |-> TRUE,
     p_nom_max |-> Inf, queried |-> {2020}]

\* variant: the else branch capped like the 2030 branch
CapacityPolicyFarCeiling(y, r1, r2) ==
  IF y = 2020 THEN
    [capacity |-> get_transmission_capacity(r1, r2, y), extendable |-> FALSE,
     p_nom_max |-> None, queried |-> {y}]
  ELSE IF y = 2030 THEN
    [capacity |-> get_transmission_capacity(r1, r2, 2020), extendable |-> TRUE,
     p_nom_max |-> Num(get_transmission_capacity(r1, r2, y)), queried |-> {2020, y}]
  ELSE
    [capacity |-> get_transmission_capacity(r1, r2, 2020), extendable |-> TRUE,
     p_nom_max |-> Num(get_transmission_capacity(r1, r2, 2030)),
     queried |-> {2020, 2030}]

\* network.py lines 75-87
CapacityPolicy(y, r1, r2) ==
  IF y = 2020 THEN
    [capacity |-> get_transmission_capacity(r1, r2, y), extendable |-> FALSE,
     p_nom_max |-> None, queried |-> {y}]
  ELSE IF y = 2030 THEN
    [capacity |-> get_transmission_capacity(r1, r2, 2020), extendable |-> TRUE,
     p_nom_max |-> Num(get_transmission_capacity(r1, r2, y)), queried |-> {2020, y}]
  ELSE
    [capacity |-> get_transmission_capacity(r1, r2, 2020), extendable |-> TRUE,
     p_nom_max |-> Inf, queried |-> {2020}]

LinkName(r1, r2) == r1 \o "-" \o r2

\* the row network.add("Link", ...) creates; p_nom_max is left at the
\* library default by add itself
LinkRow(b0, b1, pol) ==
  [ bus0 |-> b0, bus1 |-> b1, p_nom |-> Num(pol.capacity),
    p_min_pu |-> "-1", p_max_pu |-> "1",
    marginal_cost |-> Config.transmission_hurdle_cost,
    p_nom_extendable |-> pol.extendable, p_nom_max |-> Default ]

\* if extendable and p_nom_max is not None: network.links.at[name, "p_nom_max"] = p_nom_max
SetPNomMax(table, name, pol) ==
  IF pol.extendable /\ pol.p_nom_max # None
    THEN [table EXCEPT ![name].p_nom_max = pol.p_nom_max]
    ELSE table

\* one iteration of the loop over self.links: the forward link, its capacity
\* limit, the reverse link, its capacity limit
\* variant: the capacity limit of the reverse link is left out
add_link_pairReverseUnlimited(table, c) ==
  LET pol == CapacityPolicy(year, c[1], c[2])
      fwd == NetworkAdd(table, LinkName(c[1], c[2]), LinkRow(c[1], c[2], pol))
  IN IF fwd.raised THEN [tbl |-> table, ok |-> FALSE]
     ELSE LET t1 == SetPNomMax(fwd.tbl, LinkName(c[1], c[2]), pol)
              rev == NetworkAdd(t1, LinkName(c[2], c[1]), LinkRow(c[2], c[1], pol))
          IN IF rev.raised THEN [tbl |-> t1, ok |-> FALSE]
             ELSE [tbl |-> rev.tbl, ok |-> TRUE]

\* network.py lines 89-118
add_link_pair(table, c) ==
  LET pol == CapacityPolicy(year, c[1], c[2])
      fwd == NetworkAdd(table, LinkName(c[1], c[2]), LinkRow(c[1], c[2], pol))
  IN IF fwd.raised THEN [tbl |-> table, ok |-> FALSE]
     ELSE LET t1 == SetPNomMax(fwd.tbl, LinkName(c[1], c[2]), pol)
              rev == NetworkAdd(t1, LinkName(c[2], c[1]), LinkRow(c[2], c[1], pol))
          IN IF rev.raised THEN [tbl |-> t1, ok |-> FALSE]
             ELSE [tbl |-> SetPNomMax(rev.tbl, LinkName(c[2], c[1]), pol), ok |-> TRUE]

\* the for loop over self.links, from corridor i on; stops at the first raise
RECURSIVE link_loop(_, _)
link_loop(table, i) ==
  IF i > Len(links) THEN [tbl |-> table, ok |-> TRUE]
  ELSE LET r == add_link_pair(table, links[i])
       IN IF r.ok THEN link_loop(r.tbl, i + 1) ELSE r

\* the get_transmission_capacity calls of the iterations that started
RECURSIVE link_queries(_, _)
link_queries(table, i) ==
  IF i > Len(links) THEN {}
  ELSE LET c == links[i]
           q == {<<c[1], c[2], y>> : y \in CapacityPolicy(year, c[1], c[2]).queried}
           r == add_link_pair(table, c)
       IN IF r.ok THEN q \cup link_queries(r.tbl, i + 1) ELSE q

(* ------------------------------ _add_buses ----------------------------- *)
RECURSIVE bus_loop(_, _)
bus_loop(table, i) ==
  IF i > Len(RegionList) THEN [tbl |-> table, ok |-> TRUE]
  ELSE LET a == NetworkAdd(table, RegionList[i], [carrier |-> "AC"])
       IN IF a.raised THEN [tbl |-> table, ok |-> FALSE] ELSE bus_loop(a.tbl, i + 1)

(* ------------------------------ _add_loads ----------------------------- *)
LoadName(region) == region \o "-load"

\* one iteration of the loop over self.regions: a Load when the region is a
\* column of the demand data and a key of the scale factors, else a warning
\* variant: a region without a scale factor is loaded unscaled
add_loadDefaultScale(st, region) ==
  IF region \in DOMAIN loadData
    THEN LET f == IF region \in DOMAIN scaleFactors[year]
                    THEN scaleFactors[year][region] ELSE 1
             a == NetworkAdd(st.tbl, LoadName(region),
                    [bus |-> region,
                     p_set |-> [t \in Snapshots |-> loadData[region][t] * f]])
         IN [tbl |-> a.tbl, log |-> st.log, ok |-> ~a.raised]
    ELSE [tbl |-> st.tbl,
          log |-> Append(st.log,
                    Logged("warning", "missing load data or scaling factor", region, year)),
          ok |-> TRUE]

\* network.py lines 129-138
add_load(st, region) ==
  IF region \in DOMAIN loadData /\ region \in DOMAIN scaleFactors[year]
    THEN LET a == NetworkAdd(st.tbl, LoadName(region),
                    [bus |-> region,
                     p_set |-> [t \in Snapshots |->
                                  loadData[region][t] * scaleFactors[year][region]]])
         IN [tbl |-> a.tbl, log |-> st.log, ok |-> ~a.raised]
    ELSE [tbl |-> st.tbl,
          log |-> Append(st.log,
                    Logged("warning", "missing load data or scaling factor", region, year)),
          ok |-> TRUE]

RECURSIVE load_loop(_, _)
load_loop(st, i) ==
  IF i > Len(RegionList) THEN st
  ELSE LET r == add_load(st, RegionList[i])
       IN IF r.ok THEN load_loop(r, i + 1) ELSE r

(* ---------------------------- _add_generators -------------------------- *)
GenName(region, tech) == region \o "-" \o tech

Renewables == {"wind", "solar", "hydro"}

\* network.generators_t.p_max_pu[gen_name] = availability: sets the column
SetColumn(table, name, series) ==
  [n \in DOMAIN table \cup {name} |-> IF n = name THEN series ELSE table[n]]

\* one iteration of the loop over generators_data
add_generator(st, g) ==
  LET gen_name == GenName(g.region, g.type)
      a == NetworkAdd(st.gens, gen_name,
             [ bus |-> g.region, carrier |-> g.type, p_nom |-> Num(g.capacity),
               marginal_cost |-> DictGet(Config.marginal_costs, g.type, 100),
               p_min_pu |-> DictGet(Config.min_technical_output, g.type, "0"),
               p_max_pu |-> "1.0" ])
      key == <<g.region, g.type>>
  IN IF a.raised THEN [st EXCEPT !.ok = FALSE]
     ELSE IF g.type \in Renewables
       THEN [ gens |-> a.tbl,
              pt |-> IF key \in DOMAIN profiles
                       THEN SetColumn(st.pt, gen_name, profiles[key]) ELSE st.pt,
              log |-> st.log,
              asked |-> st.asked \cup {key},
              ok |-> TRUE ]
       ELSE [st EXCEPT !.gens = a.tbl]

RECURSIVE generator_loop(_, _, _)
generator_loop(st, data, i) ==
  IF i > Len(data) THEN st
  ELSE LET r == add_generator(st, data[i])
       IN IF r.ok THEN generator_loop(r, data, i + 1) ELSE r

(* -------------------------- _add_ens_generators ------------------------ *)
EnsName(region) == region \o "-ENS"

EnsRow(region) ==
  [ bus |-> region, carrier |-> "ENS", p_nom |-> Inf,
    marginal_cost |-> Config.ens_cost, p_min_pu |-> "0", p_max_pu |-> "1.0" ]

RECURSIVE ens_loop(_, _)
ens_loop(table, i) ==
  IF i > Len(RegionList) THEN [tbl |-> table, ok |-> TRUE]
  ELSE LET a == NetworkAdd(table, EnsName(RegionList[i]), EnsRow(RegionList[i]))
       IN IF a.raised THEN [tbl |-> table, ok |-> FALSE] ELSE ens_loop(a.tbl, i + 1)

(* ------------------------------ file system ---------------------------- *)
OutputDir == <<"output_dir">>
YearDir(y) == <<"output_dir", y>>
NetworkFile(y) == <<"output_dir", y, "network.nc">>
LoleFile(y) == <<"output_dir", y, "lole.csv">>

SeqRange(s) == {s[i] : i \in 1..Len(s)}

\* setup_directories: the output root, then one subdirectory per year of
\* config['model']['years']
setup_directories(dirs) ==
  dirs \cup {OutputDir} \cup {YearDir(y) : y \in SeqRange(configYears)}

Event(op) == [op |-> op, iter |-> yi, year |-> year, on |-> network.status]

(* ------------------------- Optimizer (collaborator) -------------------- *)
\* Optimizer(config, network, year).solve(): returns the solved network, or
\* fails (raises) when the solve fails or does not converge
OptimizerSolve(net, outcome) ==
  IF outcome = "solved"
    THEN [raised |-> FALSE, network |-> [net EXCEPT !.status = "solved"]]
    ELSE [raised |-> TRUE, network |-> net]

\* LOLEAnalyzer(config, solved_network).calculate_lole(): reads the network
CalculateLoleResult(net) == [of_year |-> year, network_status |-> net.status]

(* --------------------------------- steps ------------------------------- *)
program == <<pc, years, yi, network, networks, lole_results, fsDirs, fsFiles, log,
             capQueries, profileQueries, lole_result, events, error, exitCode>>

\* run_workflow up to the loop: years, setup_directories, the empty stores
RunWorkflowSetup ==
  /\ pc = "start"
  /\ years' = IF argsYears # <<>> THEN argsYears ELSE configYears
  /\ fsDirs' = setup_directories(fsDirs)
  /\ networks' = EmptyTable
  /\ lole_results' = EmptyTable
  /\ yi' = 1
  /\ log' = Append(log, Logged("info", "Will run models for the following years", "", 0))
  /\ pc' = "loop"
  /\ UNCHANGED <<inputs, network, fsFiles, capQueries, profileQueries, lole_result,
                 events, error, exitCode>>

\* the head of "for year in years": NetworkBuilder(config, year) and the
\* start of create_network (a new network with its snapshots)
ForYear ==
  /\ pc = "loop"
  /\ yi <= Len(years)
  /\ network' = NewNetwork
  /\ log' = log \o << Logged("info", "Starting model for year", "", years[yi]),
                      Logged("info", "Initializing network builder for year", "", years[yi]),
                      Logged("info", "Creating network model for year", "", years[yi]) >>
  /\ pc' = "add_buses"
  /\ UNCHANGED <<inputs, years, yi, networks, lole_results, fsDirs, fsFiles,
                 capQueries, profileQueries, lole_result, events, error, exitCode>>

\* what every assembly step leaves alone
BuildFrame ==
  UNCHANGED <<inputs, years, yi, networks, lole_results, fsDirs, fsFiles,
              lole_result, events, exitCode>>

add_buses ==
  /\ pc = "add_buses"
  /\ LET r == bus_loop(network.buses, 1)
     IN /\ network' = [network EXCEPT !.buses = r.tbl]
        /\ IF r.ok
             THEN /\ pc' = "add_transmission_links"
                  /\ error' = error
                  /\ log' = Append(log, Logged("debug", "Added region nodes", "", year))
             ELSE /\ pc' = "failed"
                  /\ error' = "DuplicateName"
                  /\ log' = log
  /\ UNCHANGED <<capQueries, profileQueries>>
  /\ BuildFrame

add_transmission_links ==
  /\ pc = "add_transmission_links"
  /\ LET r == link_loop(network.links, 1)
     IN /\ network' = [network EXCEPT !.links = r.tbl]
        /\ IF r.ok
             THEN /\ pc' = "add_loads"
                  /\ error' = error
                  /\ log' = Append(log, Logged("debug", "Added transmission links (bidirectional)", "", year))
             ELSE /\ pc' = "failed"
                  /\ error' = "DuplicateName"
                  /\ log' = log
  /\ capQueries' = capQueries \cup link_queries(network.links, 1)
  /\ UNCHANGED profileQueries
  /\ BuildFrame

add_loads ==
  /\ pc = "add_loads"
  /\ LET r == load_loop([tbl |-> network.loads, log |-> log, ok |-> TRUE], 1)
     IN /\ network' = [network EXCEPT !.loads = r.tbl]
        /\ IF r.ok
             THEN /\ pc' = "add_generators"
                  /\ error' = error
                  /\ log' = Append(r.log, Logged("debug", "Added regional loads", "", year))
             ELSE /\ pc' = "failed"
                  /\ error' = "DuplicateName"
                  /\ log' = r.log
  /\ UNCHANGED <<capQueries, profileQueries>>
  /\ BuildFrame

add_generators ==
  /\ pc = "add_generators"
  /\ LET r == generator_loop([gens |-> network.generators,
                              pt |-> network.generators_t_p_max_pu,
                              log |-> log, asked |-> profileQueries, ok |-> TRUE],
                             genData[year], 1)
     IN /\ network' = [network EXCEPT !.generators = r.gens,
                                      !.generators_t_p_max_pu = r.pt]
        /\ profileQueries' = r.asked
        /\ IF r.ok
             THEN /\ pc' = "add_ens_generators"
                  /\ error' = error
                  /\ log' = Append(r.log, Logged("debug", "Added generators", "", year))
             ELSE /\ pc' = "failed"
                  /\ error' = "DuplicateName"
                  /\ log' = r.log
  /\ UNCHANGED capQueries
  /\ BuildFrame

\* _add_ens_generators and the return of create_network
add_ens_generators ==
  /\ pc = "add_ens_generators"
  /\ LET r == ens_loop(network.generators, 1)
     IN /\ network' = [network EXCEPT !.generators = r.tbl]
        /\ IF r.ok
             THEN /\ pc' = "solve"
                  /\ error' = error
                  /\ log' = log \o << Logged("debug", "Added ENS virtual generators", "", year),
                                      Logged("info", "Network model created successfully", "", year) >>
             ELSE /\ pc' = "failed"
                  /\ error' = "DuplicateName"
                  /\ log' = log
  /\ UNCHANGED <<capQueries, profileQueries>>
  /\ BuildFrame

(* ----------------------------- run_workflow ---------------------------- *)
\* what the steps of a loop iteration after create_network leave alone
RunFrame == UNCHANGED <<inputs, years, capQueries, profileQueries, exitCode>>

\* where run_workflow goes after optimizer.solve(): on to the LOLE analysis
\* when solve returned; a raise is not caught in run_workflow and leaves it
\* variant: the failure of solve is swallowed
after_solveSwallow(raised) == "lole"

after_solve(raised) == IF raised THEN "failed" ELSE "lole"

\* 2. Solve optimization
Solve ==
  /\ pc = "solve"
  /\ \E outcome \in {"solved", "failed"} :
       LET r == OptimizerSolve(network, outcome)
       IN /\ network' = r.network
          /\ pc' = after_solve(r.raised)
          /\ error' = IF after_solve(r.raised) = "failed" THEN "SolveError" ELSE error
          /\ events' = Append(events,
                         [Event("solve") EXCEPT !.on = IF r.raised THEN "failed" ELSE "solved"])
  /\ UNCHANGED <<yi, networks, lole_results, fsDirs, fsFiles, log, lole_result>>
  /\ RunFrame

\* 3. LOLE analysis
CalculateLole ==
  /\ pc = "lole"
  /\ lole_result' = CalculateLoleResult(network)
  /\ events' = Append(events, Event("lole"))
  /\ pc' = "store"
  /\ UNCHANGED <<yi, network, networks, lole_results, fsDirs, fsFiles, log, error>>
  /\ RunFrame

\* Store results
StoreResults ==
  /\ pc = "store"
  /\ networks' = [y \in DOMAIN networks \cup {year} |->
                    IF y = year THEN network ELSE networks[y]]
  /\ lole_results' = [y \in DOMAIN lole_results \cup {year} |->
                        IF y = year THEN lole_result ELSE lole_results[y]]
  /\ events' = Append(events, Event("store"))
  /\ pc' = "save_network"
  /\ UNCHANGED <<yi, network, fsDirs, fsFiles, log, lole_result, error>>
  /\ RunFrame

\* 4. Save year-specific results: the network file, when configured. Writing
\* into a directory that does not exist raises
SaveNetwork ==
  /\ pc = "save_network"
  /\ IF ~saveNetworks
       THEN /\ pc' = "save_lole"
            /\ UNCHANGED <<fsFiles, log, events, error>>
       ELSE IF YearDir(year) \in fsDirs
         THEN /\ fsFiles' = fsFiles \cup {NetworkFile(year)}
              /\ log' = Append(log, Logged("info", "Network model saved to", "", year))
              /\ events' = Append(events, Event("write_network"))
              /\ pc' = "save_lole"
              /\ error' = error
         ELSE /\ pc' = "failed"
              /\ error' = "FileNotFoundError"
              /\ UNCHANGED <<fsFiles, log, events>>
  /\ UNCHANGED <<yi, network, networks, lole_results, fsDirs, lole_result>>
  /\ RunFrame

\* the LOLE file, then the end of the loop body
SaveLole ==
  /\ pc = "save_lole"
  /\ IF YearDir(year) \in fsDirs
       THEN /\ fsFiles' = fsFiles \cup {LoleFile(year)}
            /\ log' = log \o << Logged("info", "LOLE results saved to", "", year),
                                Logged("info", "Year model completed", "", year) >>
            /\ events' = Append(events, Event("write_lole"))
            /\ pc' = "loop"
            /\ yi' = yi + 1
            /\ error' = error
       ELSE /\ pc' = "failed"
            /\ error' = "FileNotFoundError"
            /\ UNCHANGED <<fsFiles, log, events, yi>>
  /\ UNCHANGED <<network, networks, lole_results, fsDirs, lole_result>>
  /\ RunFrame

\* 5. Visualize results, 6. Generate report: `visualizer` is bound only when
\* create_plots is set
Visualize ==
  /\ pc = "loop"
  /\ yi > Len(years)
  /\ IF createReport /\ ~createPlots
       THEN /\ pc' = "failed"
            /\ error' = "NameError"
            /\ log' = Append(log, Logged("info", "Generating analysis report...", "", 0))
       ELSE /\ pc' = "done"
            /\ error' = error
            /\ log' = log
                 \o (IF createPlots
                       THEN <<Logged("info", "Generating visualization plots...", "", 0)>>
                       ELSE <<>>)
                 \o (IF createReport
                       THEN <<Logged("info", "Generating analysis report...", "", 0)>>
                       ELSE <<>>)
                 \o <<Logged("info", "All processing completed", "", 0)>>
  /\ UNCHANGED <<yi, network, networks, lole_results, fsDirs, fsFiles, lole_result, events>>
  /\ RunFrame

(* --------------------------------- main -------------------------------- *)
\* run_workflow returned: "Program exited normally"
MainExit ==
  /\ pc = "done"
  /\ exitCode' = "0"
  /\ pc' = "exited"
  /\ log' = Append(log, Logged("info", "Program exited normally", "", 0))
  /\ UNCHANGED <<inputs, years, yi, network, networks, lole_results, fsDirs, fsFiles,
                 capQueries, profileQueries, lole_result, events, error>>

\* except Exception: log the error, sys.exit(1)
MainExcept ==
  /\ pc = "failed"
  /\ exitCode' = "1"
  /\ pc' = "exited"
  /\ log' = Append(log, Logged("error", "Error during execution", "", 0))
  /\ UNCHANGED <<inputs, years, yi, network, networks, lole_results, fsDirs, fsFiles,
                 capQueries, profileQueries, lole_result, events, error>>

Next ==
  \/ RunWorkflowSetup
  \/ ForYear
  \/ add_buses
  \/ add_transmission_links
  \/ add_loads
  \/ add_generators
  \/ add_ens_generators
  \/ Solve
  \/ CalculateLole
  \/ StoreResults
  \/ SaveNetwork
  \/ SaveLole
  \/ Visualize
  \/ MainExit
  \/ MainExcept

(* ------------------------------ initial states -------------------------- *)
\* the state of the process when main calls run_workflow: a fresh output
\* root, nothing logged but the start-up lines
InitProgram ==
  /\ pc = "start"
  /\ years = <<>>
  /\ yi = 0
  /\ network = NewNetwork
  /\ networks = EmptyTable
  /\ lole_results = EmptyTable
  /\ fsDirs = {}
  /\ fsFiles = {}
  /\ log = <<Logged("info", "Starting PyPSA-China 7-Node Model", "", 0)>>
  /\ capQueries = {}
  /\ profileQueries = {}
  /\ lole_result = [of_year |-> 0, network_status |-> "none"]
  /\ events = <<>>
  /\ error = "none"
  /\ exitCode = "running"

PartialFunctions(D, R) == UNION {[S -> R] : S \in SUBSET D}

CapKeysOf(ls) == {CapKey(ls[i][1], ls[i][2], y) : i \in 1..Len(ls), y \in {2020, 2030}}

GenRecords == [region : Regions, type : Techs, capacity : GenCapacities]

ProfileKeysOf(recs) ==
  {<<recs[i].region, recs[i].type>> : i \in {j \in 1..Len(recs) : recs[j].type \in Renewables}}

\* the inputs every run below shares unless it varies them
BaseLinks == << <<"A", "B">> >>
BaseCapData == [k \in CapKeysOf(BaseLinks) |-> IF k[2] = 2020 THEN 1000 ELSE 1500]
BaseLoadData == [r \in Regions |-> [t \in Snapshots |-> 3]]
BaseScaleFactors == [y \in YearChoices |-> [r \in Regions |-> 2]]
BaseGenData == [y \in YearChoices |-> << [region |-> "A", type |-> "coal", capacity |-> 7] >>]

\* corridor assembly: any corridor list, any capacity data, any one year
InitTopology ==
  /\ InitProgram
  /\ links \in SeqsUpTo(CorridorPairs, MaxLinks)
  /\ capData \in [CapKeysOf(links) -> Capacities]
  /\ \E y \in YearChoices : configYears = <<y>>
  /\ argsYears = <<>>
  /\ dupPolicy \in {"raise", "skip"}
  /\ saveNetworks = TRUE /\ createPlots = TRUE /\ createReport = TRUE
  /\ loadData = BaseLoadData
  /\ scaleFactors = BaseScaleFactors
  /\ genData = BaseGenData
  /\ profiles = EmptyTable

\* load assembly: any demand columns, any scale-factor table of the year
InitLoads ==
  /\ InitProgram
  /\ links = BaseLinks /\ capData = BaseCapData
  /\ configYears = <<2030>> /\ argsYears = <<>>
  /\ dupPolicy \in {"raise", "skip"}
  /\ saveNetworks = TRUE /\ createPlots = TRUE /\ createReport = TRUE
  /\ loadData \in PartialFunctions(Regions, [Snapshots -> DemandValues])
  /\ \E sf \in PartialFunctions(Regions, ScaleValues) :
       scaleFactors = [y \in YearChoices |-> IF y = 2030 THEN sf ELSE EmptyTable]
  /\ genData = BaseGenData
  /\ profiles = EmptyTable

\* generator assembly: any generator records, any profile data for them
InitGenerators ==
  /\ InitProgram
  /\ links = BaseLinks /\ capData = BaseCapData
  /\ configYears = <<2030>> /\ argsYears = <<>>
  /\ dupPolicy \in {"raise", "skip"}
  /\ saveNetworks = TRUE /\ createPlots = TRUE /\ createReport = TRUE
  /\ loadData = BaseLoadData
  /\ scaleFactors = BaseScaleFactors
  /\ \E recs \in SeqsUpTo(GenRecords, MaxGens) :
       /\ genData = [y \in YearChoices |-> recs]
       /\ profiles \in PartialFunctions(ProfileKeysOf(recs), [Snapshots -> AvailValues])

\* the per-year pipeline: any configured years, any --years, any result flags
WorkflowYears == {2020, 2030, 2050}

InitWorkflow ==
  /\ InitProgram
  /\ links = BaseLinks /\ capData = BaseCapData
  /\ configYears \in SeqsUpTo(WorkflowYears, MaxYears) \ {<<>>}
  /\ argsYears \in SeqsUpTo(WorkflowYears, MaxYears)
  /\ dupPolicy = "raise"
  /\ saveNetworks \in BOOLEAN /\ createPlots \in BOOLEAN /\ createReport \in BOOLEAN
  /\ loadData = BaseLoadData
  /\ scaleFactors = BaseScaleFactors
  /\ genData = BaseGenData
  /\ profiles = EmptyTable

SpecTopology == InitTopology /\ [][Next]_vars
SpecLoads == InitLoads /\ [][Next]_vars
SpecGenerators == InitGenerators /\ [][Next]_vars
SpecWorkflow == InitWorkflow /\ [][Next]_vars
Spec == SpecWorkflow

(* ============================== properties ============================= *)
\* the current iteration is past the given assembly step and still running
AfterLinksPcs == {"add_loads", "add_generators", "add_ens_generators", "solve",
                  "lole", "store", "save_network", "save_lole"}
AfterLoadsPcs == AfterLinksPcs \ {"add_loads"}
AfterGeneratorsPcs == AfterLoadsPcs \ {"add_generators"}
ReturnedPcs == AfterGeneratorsPcs \ {"add_ens_generators"}

LinksAssembled == pc \in AfterLinksPcs
LoadsAssembled == pc \in AfterLoadsPcs
GeneratorsAssembled == pc \in AfterGeneratorsPcs
NetworkReturned == pc \in ReturnedPcs

YearIs(y) == yi \in 1..Len(years) /\ years[yi] = y

\* the years the if / elif / else of _add_transmission_links is written for
PolicyYears == {2020, 2030, 2050}

LinksFromTo(a, b) ==
  {n \in DOMAIN network.links : network.links[n].bus0 = a /\ network.links[n].bus1 = b}

SameButDirection(l1, l2) ==
  /\ l1.bus0 = l2.bus1 /\ l1.bus1 = l2.bus0
  /\ l1.p_nom = l2.p_nom
  /\ l1.p_nom_extendable = l2.p_nom_extendable
  /\ l1.p_nom_max = l2.p_nom_max
  /\ l1.p_min_pu = l2.p_min_pu /\ l1.p_max_pu = l2.p_max_pu
  /\ l1.marginal_cost = l2.marginal_cost

\* the 2n names the corridor list asks for
LinkNames ==
  {LinkName(links[i][1], links[i][2]) : i \in 1..Len(links)}
    \cup {LinkName(links[i][2], links[i][1]) : i \in 1..Len(links)}
LinkNamesDistinct == Cardinality(LinkNames) = 2 * Len(links)

TwoSymmetricLinksPerCorridor ==
  /\ \A i \in 1..Len(links) :
       LET a == links[i][1]
           b == links[i][2]
       IN /\ Cardinality(LinksFromTo(a, b)) = 1
          /\ Cardinality(LinksFromTo(b, a)) = 1
          /\ \A n \in LinksFromTo(a, b), m \in LinksFromTo(b, a) :
               /\ SameButDirection(network.links[n], network.links[m])
               /\ network.links[n].marginal_cost = Config.transmission_hurdle_cost
               /\ network.links[n].p_min_pu = "-1" /\ network.links[n].p_max_pu = "1"
  /\ Cardinality(DOMAIN network.links) = 2 * Len(links)

\* C1 (as stated): after _add_transmission_links has run, for any year and ANY
\* corridor list, every corridor (A,B) has exactly one link A->B and one link
\* B->A with identical parameters, and there are 2 x (number of corridors) links.
C1_AnyCorridorList == LinksAssembled => TwoSymmetricLinksPerCorridor

\* C1 (amended): the same, for every corridor list whose 2n link names
\* "A-B", "B-A" are pairwise distinct (no corridor listed twice, in either
\* orientation).
C1_DistinctCorridors ==
  (LinksAssembled /\ LinkNamesDistinct) => TwoSymmetricLinksPerCorridor

C1_Witness ==
  /\ LinksAssembled /\ LinkNamesDistinct /\ Len(links) = 2 /\ YearIs(2030)
  /\ \E n \in DOMAIN network.links : network.links[n].p_nom_max = Num(1500)

\* C2: when the year matches none of the policy tiers, corridor assembly fails
\* with a configuration error and creates no link.
C2_UnknownYearFails ==
  (yi \in 1..Len(years) /\ year \notin PolicyYears /\ links # <<>>)
    => /\ pc \notin AfterLinksPcs
       /\ network.links = EmptyTable
       /\ (pc \in {"failed", "exited"} => error = "ConfigurationError")

\* C3: for the near-horizon year 2030 every link has p_nom = the corridor's
\* 2020 capacity, is extendable, and has p_nom_max = the corridor's 2030
\* capacity; every corridor gets its links and assembly raises nothing, also
\* when the 2030 capacity equals the 2020 capacity.
C3_NearHorizonPolicy ==
  /\ (LinksAssembled /\ YearIs(2030)) =>
       /\ \A n \in DOMAIN network.links :
            LET l == network.links[n]
            IN /\ l.p_nom = Num(get_transmission_capacity(l.bus0, l.bus1, 2020))
               /\ l.p_nom_extendable = TRUE
               /\ l.p_nom_max = Num(get_transmission_capacity(l.bus0, l.bus1, 2030))
       /\ LinkNames \subseteq DOMAIN network.links
  /\ (pc \in {"failed", "exited"} /\ YearIs(2030) /\ LinkNamesDistinct)
       => error # "DuplicateName"

C3_Witness ==
  /\ LinksAssembled /\ YearIs(2030)
  /\ \E n \in DOMAIN network.links :
       network.links[n].p_nom = Num(1000) /\ network.links[n].p_nom_max = Num(1500)
  /\ \E n \in DOMAIN network.links :
       network.links[n].p_nom = Num(1000) /\ network.links[n].p_nom_max = Num(1000)

\* C4: for the base year 2020 every link is not extendable, has no p_nom_max
\* set by the assembler, and has p_nom = the corridor's 2020 capacity.
C4_BaseYearPolicy ==
  (LinksAssembled /\ YearIs(2020)) =>
    /\ \A n \in DOMAIN network.links :
         LET l == network.links[n]
         IN /\ l.p_nom = Num(get_transmission_capacity(l.bus0, l.bus1, 2020))
            /\ l.p_nom_extendable = FALSE
            /\ l.p_nom_max = Default
    /\ LinkNames \subseteq DOMAIN network.links

C4_Witness ==
  /\ LinksAssembled /\ YearIs(2020) /\ Len(links) = 2 /\ LinkNamesDistinct
  /\ \E n, m \in DOMAIN network.links :
       network.links[n].p_nom = Num(1000) /\ network.links[m].p_nom = Num(1500)

\* C5: for the far-horizon year 2050 every link has p_nom = the corridor's
\* 2020 capacity, is extendable and has p_nom_max = infinity; only 2020
\* capacities are asked of the data processor.
C5_FarHorizonPolicy ==
  (LinksAssembled /\ YearIs(2050)) =>
    /\ \A n \in DOMAIN network.links :
         LET l == network.links[n]
         IN /\ l.p_nom = Num(get_transmission_capacity(l.bus0, l.bus1, 2020))
            /\ l.p_nom_extendable = TRUE
            /\ l.p_nom_max = Inf
    /\ LinkNames \subseteq DOMAIN network.links
    /\ \A q \in capQueries : q[3] = 2020

C5_Witness ==
  /\ LinksAssembled /\ YearIs(2050) /\ Len(links) = 2 /\ LinkNamesDistinct
  /\ \E n \in DOMAIN network.links :
       /\ network.links[n].p_nom = Num(1000)
       /\ network.links[n].p_nom_max = Inf
       /\ get_transmission_capacity(network.links[n].bus0, network.links[n].bus1, 2030) = 1500

\* C6: in every network create_network returns, each region has exactly one
\* ENS generator, with p_nom = infinity, p_min_pu 0, p_max_pu 1.0 and
\* marginal_cost = ens_cost, whatever the generator records are.
C6_OneEnsPerRegion ==
  NetworkReturned =>
    \A r \in Regions :
      /\ Cardinality({n \in DOMAIN network.generators :
                        /\ network.generators[n].bus = r
                        /\ network.generators[n].carrier = "ENS"}) = 1
      /\ EnsName(r) \in DOMAIN network.generators
      /\ network.generators[EnsName(r)] = EnsRow(r)

\* C7: after load assembly a region has a Load (raw demand x scale factor of
\* the year) iff it is in both the demand data and the year's scale factors;
\* a region missing either has no Load and a warning; the other regions still
\* get theirs and load assembly never aborts.
HasLoadInputs(r) == r \in DOMAIN loadData /\ r \in DOMAIN scaleFactors[year]

LoadWarned(r) ==
  \E k \in 1..Len(log) :
    /\ log[k].level = "warning" /\ log[k].region = r /\ log[k].year = year
    /\ log[k].msg = "missing load data or scaling factor"

C7_LoadIffBothInputs ==
  /\ LoadsAssembled =>
       \A r \in Regions :
         LET onBus == {n \in DOMAIN network.loads : network.loads[n].bus = r}
         IN IF HasLoadInputs(r)
              THEN /\ onBus = {LoadName(r)}
                   /\ network.loads[LoadName(r)].p_set =
                        [t \in Snapshots |-> loadData[r][t] * scaleFactors[year][r]]
                   /\ ~LoadWarned(r)
              ELSE /\ onBus = {}
                   /\ LoadWarned(r)
  /\ pc \notin {"start", "loop", "add_buses", "add_transmission_links", "add_loads"}
       => error # "DuplicateName"

C7_Witness ==
  /\ LoadsAssembled
  /\ "A" \in DOMAIN loadData /\ "A" \notin DOMAIN scaleFactors[year]
  /\ "B" \notin DOMAIN loadData /\ "B" \notin DOMAIN scaleFactors[year]
  /\ HasLoadInputs("C") /\ scaleFactors[year]["C"] = 2
  /\ network.loads[LoadName("C")].p_set["t1"] = 10
  /\ LoadWarned("A") /\ LoadWarned("B")

(* --------------------------- run_workflow claims ----------------------- *)
EventsOf(op) == {k \in 1..Len(events) : events[k].op = op}

\* the stores and the files are exactly what the recorded steps produced
HistoryMatchesState ==
  /\ DOMAIN networks = {events[k].year : k \in EventsOf("store")}
  /\ DOMAIN lole_results = {events[k].year : k \in EventsOf("store")}
  /\ fsFiles = {NetworkFile(events[k].year) : k \in EventsOf("write_network")}
                 \cup {LoleFile(events[k].year) : k \in EventsOf("write_lole")}

\* C8: the LOLE analysis of a year runs only after the optimizer solved that
\* year's network; when the solve fails, the failure is surfaced (run_workflow
\* ends with the solve error, the process exits with status 1), no LOLE
\* analysis runs and nothing is stored or written for that year.
C8_LoleOnlyAfterSolve ==
  /\ HistoryMatchesState
  /\ \A k \in EventsOf("lole") :
       /\ events[k].on = "solved"
       /\ k > 1
       /\ events[k - 1].op = "solve" /\ events[k - 1].on = "solved"
       /\ events[k - 1].iter = events[k].iter
  /\ \A k \in EventsOf("solve") :
       events[k].on = "failed" =>
         /\ k = Len(events)
         /\ \A j \in 1..Len(events) : j # k => events[j].iter # events[k].iter
         /\ pc \in {"failed", "exited"}
         /\ error = "SolveError"
         /\ exitCode # "0"
         /\ yi = events[k].iter
  /\ \A y \in DOMAIN networks : networks[y].status = "solved"
  /\ \A y \in DOMAIN lole_results : lole_results[y].network_status = "solved"

C8_Witness ==
  /\ pc = "exited" /\ exitCode = "1" /\ error = "SolveError"
  /\ Len(years) = 2 /\ yi = 2
  /\ \E k \in EventsOf("store") : events[k].iter = 1
  /\ LoleFile(years[1]) \in fsFiles
  /\ events[Len(events)].op = "solve" /\ events[Len(events)].on = "failed"

\* C9: after generator assembly every record has a generator with p_max_pu
\* 1.0; for wind, solar and hydro a present profile is the generator's
\* per-snapshot p_max_pu, an absent one leaves no per-snapshot bound and a
\* data gap is logged; for other technologies no profile is asked for and no
\* per-snapshot bound is set.
GapLogged(g) ==
  \E k \in 1..Len(log) :
    /\ log[k].region = g.region
    /\ log[k].msg # "missing load data or scaling factor"

C9_ProfilesAndGaps ==
  GeneratorsAssembled =>
    \A i \in 1..Len(genData[year]) :
      LET g == genData[year][i]
          n == GenName(g.region, g.type)
          key == <<g.region, g.type>>
      IN /\ n \in DOMAIN network.generators
         /\ network.generators[n].p_max_pu = "1.0"
         /\ IF g.type \in Renewables
              THEN IF key \in DOMAIN profiles
                     THEN /\ n \in DOMAIN network.generators_t_p_max_pu
                          /\ network.generators_t_p_max_pu[n] = profiles[key]
                     ELSE /\ n \notin DOMAIN network.generators_t_p_max_pu
                          /\ GapLogged(g)
              ELSE /\ key \notin profileQueries
                   /\ n \notin DOMAIN network.generators_t_p_max_pu

\* C10: for every year run_workflow processes, also one given with --years
\* that is not a configured year, the year's subdirectory exists when the
\* workflow writes the year's network file or LOLE result into it.
C10_YearDirBeforeWrite ==
  (pc = "save_lole" \/ (pc = "save_network" /\ saveNetworks))
    => YearDir(year) \in fsDirs

====
